---- MODULE Spec2Model ----
(***************************************************************************)
(* Entity-component store of the ignition engine (src/src/life/genesis.rs): *)
(* the Scene's entity allocator (available_entities) and its type-keyed     *)
(* sparse-set component pools (component_pools).                            *)
(*                                                                         *)
(* Rust vectors are 0-based, TLA+ sequences 1-based: the Rust expression    *)
(* v[i] is written v[i + 1] here.  The values stored in sparse_array are    *)
(* the 0-based dense slots of the code, unchanged.  Slot numbers stay far   *)
(* below 2^31, so the cast `value as i32` of add_entity_to_sparse_array is  *)
(* the identity on every value the model reaches.                           *)
(***************************************************************************)
EXTENDS Integers, Sequences, FiniteSets, TLC

(* ------------------------------ bounds -------------------------------- *)

\* cap on the high-water counter: entity ids are 0 .. MaxEntities - 1
MaxEntities == 2
\* component values are 1 .. MaxValue
MaxValue == 2
\* cap on the length of a collection component
MaxVecLen == 2
\* cap on the sparse array length reached through create_empty_entity
MaxSparse == 3

\* the "absent" marker of the sparse array
Absent == -1

Entities == 0 .. (MaxEntities - 1)
Values == 1 .. MaxValue

\* the type tags (TypeId) the model instantiates the generic G with
ScalarTypes == {"i32"}
ElemTypes == {"i32"}
VecOf(T) == "Vec<" \o T \o ">"
VecTypes == {VecOf(T) : T \in ElemTypes}
TypeIds == ScalarTypes \cup VecTypes

\* a second scalar type, for the runs that tell two scalar pools apart
FloatTypes == {"f32"}
AllTypeIds == TypeIds \cup FloatTypes

\* the values of a type: an f32 is never equal to an i32 (the types differ in
\* Rust), so the f32 values are written as the negatives of the i32 values
ValuesOf(T) == IF T \in FloatTypes THEN {0 - v : v \in Values} ELSE Values

VARIABLES
    available_entities,  \* Scene.available_entities: <<counter, recycled...>>
    component_pools,     \* Scene.component_pools: TypeId -> ComponentPool
    op,                  \* the last call: name, arguments, result
    live,                \* history: ids issued by entity() and not deleted since
    calls,               \* history: entity() calls so far, -1 once delete was called
    trail,               \* history: the allocator events of a delete/delete/create run
    hist                 \* history: per assigned type, while delete was never called,
                         \* the <<entity, value>> pairs in order of first assignment

vars == <<available_entities, component_pools, op, live, calls, trail, hist>>

(* ----------------------------- sequences ------------------------------ *)

Last(s) == s[Len(s)]
Front(s) == SubSeq(s, 1, Len(s) - 1)
Range(s) == {s[i] : i \in 1 .. Len(s)}
Occurrences(s, x) == Cardinality({i \in 1 .. Len(s) : s[i] = x})

(* --------------------------- ComponentPool ---------------------------- *)

\* variant: the new slots are filled with 0 instead of the absent marker
prolong_sparse_array_zero(entity, sparse_array) ==
    IF entity + 1 > Len(sparse_array)
    THEN sparse_array \o [i \in 1 .. (entity + 1 - Len(sparse_array)) |-> 0]
    ELSE sparse_array

\* variant: the resize is not guarded by the length test (Vec::resize truncates)
prolong_sparse_array_resize(entity, sparse_array) ==
    IF entity + 1 > Len(sparse_array)
    THEN sparse_array \o [i \in 1 .. (entity + 1 - Len(sparse_array)) |-> Absent]
    ELSE SubSeq(sparse_array, 1, entity + 1)

prolong_sparse_array(entity, sparse_array) ==
    IF entity + 1 > Len(sparse_array)
    THEN sparse_array \o [i \in 1 .. (entity + 1 - Len(sparse_array)) |-> Absent]
    ELSE sparse_array

add_entity_to_sparse_array(entity, value, sparse_array) ==
    [prolong_sparse_array(entity, sparse_array) EXCEPT ![entity + 1] = value]


\* variant: the first component is not counted
new_with_entity_uncounted(entity, component) ==
    [num_components |-> 0,
     sparse_array |-> add_entity_to_sparse_array(entity, 0, <<>>),
     packed_array |-> <<entity>>,
     component_array |-> <<component>>]

new_with_entity(entity, component) ==
    [num_components |-> 1,
     sparse_array |-> add_entity_to_sparse_array(entity, 0, <<>>),
     packed_array |-> <<entity>>,
     component_array |-> <<component>>]

\* has(e): e maps to a non-absent slot; an id beyond the sparse array has none
has_component(pool, entity) ==
    /\ entity < Len(pool.sparse_array)
    /\ pool.sparse_array[entity + 1] # Absent


\* variant: an entity that already has a component keeps its old value
assign_component_keep(pool, entity, component) ==
    IF has_component(pool, entity)
    THEN pool
    ELSE [num_components |-> pool.num_components + 1,
          sparse_array |-> add_entity_to_sparse_array(entity, pool.num_components,
                                                      pool.sparse_array),
          packed_array |-> Append(pool.packed_array, entity),
          component_array |-> Append(pool.component_array, component)]

\* variant: every assignment takes a new dense slot
assign_component_push(pool, entity, component) ==
    [num_components |-> pool.num_components + 1,
     sparse_array |-> add_entity_to_sparse_array(entity, pool.num_components,
                                                 pool.sparse_array),
     packed_array |-> Append(pool.packed_array, entity),
     component_array |-> Append(pool.component_array, component)]

\* variant: a new component takes the first dense slot and shifts the others
assign_component_first(pool, entity, component) ==
    IF has_component(pool, entity)
    THEN [pool EXCEPT !.component_array[pool.sparse_array[entity + 1] + 1] = component]
    ELSE LET p == prolong_sparse_array(entity, pool.sparse_array)
         IN  [num_components |-> pool.num_components + 1,
              sparse_array |-> [i \in 1 .. Len(p) |->
                                   IF i = entity + 1 THEN 0
                                   ELSE IF p[i] = Absent THEN Absent ELSE p[i] + 1],
              packed_array |-> <<entity>> \o pool.packed_array,
              component_array |-> <<component>> \o pool.component_array]

\* variant: the count is incremented before it is written to the sparse array
assign_component_counted(pool, entity, component) ==
    IF has_component(pool, entity)
    THEN [pool EXCEPT !.component_array[pool.sparse_array[entity + 1] + 1] = component]
    ELSE [num_components |-> pool.num_components + 1,
          sparse_array |-> add_entity_to_sparse_array(entity, pool.num_components + 1,
                                                      pool.sparse_array),
          packed_array |-> Append(pool.packed_array, entity),
          component_array |-> Append(pool.component_array, component)]

assign_component(pool, entity, component) ==
    IF has_component(pool, entity)
    THEN [pool EXCEPT !.component_array[pool.sparse_array[entity + 1] + 1] = component]
    ELSE [num_components |-> pool.num_components + 1,
          sparse_array |-> add_entity_to_sparse_array(entity, pool.num_components,
                                                      pool.sparse_array),
          packed_array |-> Append(pool.packed_array, entity),
          component_array |-> Append(pool.component_array, component)]

\* variant: the new sparse entry is counted as a component
create_empty_entity_counted(pool) ==
    [pool EXCEPT !.sparse_array = Append(@, Absent),
                 !.num_components = @ + 1]

create_empty_entity(pool) ==
    [pool EXCEPT !.sparse_array = Append(@, Absent)]

\* get(e): the value stored for e (callers check has_component first)
get_component(pool, entity) ==
    pool.component_array[pool.sparse_array[entity + 1] + 1]

\* variant: the new element goes to the front of the collection
push_component_front(pool, entity, c) ==
    [pool EXCEPT !.component_array[pool.sparse_array[entity + 1] + 1] = <<c>> \o @]

\* get_component_mut(e).push(c): grow e's collection in its dense slot
push_component(pool, entity, c) ==
    [pool EXCEPT !.component_array[pool.sparse_array[entity + 1] + 1] = Append(@, c)]

\* get::<T>().iter(): the dense values in dense order
get_all(pools, T) == pools[T].component_array

\* variant: the sparse entry of the moved element is left pointing at the old slot
remove_component_stale(pool, entity) ==
    IF ~has_component(pool, entity)
    THEN pool
    ELSE LET i == pool.sparse_array[entity + 1]
             n == Len(pool.packed_array)
         IN  [num_components |-> pool.num_components - 1,
              sparse_array |-> [pool.sparse_array EXCEPT ![entity + 1] = Absent],
              packed_array |->
                  Front([pool.packed_array EXCEPT ![i + 1] = pool.packed_array[n]]),
              component_array |->
                  Front([pool.component_array EXCEPT ![i + 1] = pool.component_array[n]])]

\* remove(e): swap the last dense element into e's slot, pop, re-index
remove_component(pool, entity) ==
    IF ~has_component(pool, entity)
    THEN pool
    ELSE LET i == pool.sparse_array[entity + 1]
             n == Len(pool.packed_array)
             moved == pool.packed_array[n]
             owners == Front([pool.packed_array EXCEPT ![i + 1] = moved])
             values ==
                 Front([pool.component_array EXCEPT ![i + 1] = pool.component_array[n]])
             sparse == [[pool.sparse_array EXCEPT ![moved + 1] = i]
                           EXCEPT ![entity + 1] = Absent]
         IN  [num_components |-> pool.num_components - 1,
              sparse_array |-> sparse,
              packed_array |-> owners,
              component_array |-> values]

(* ------------------------------- Scene -------------------------------- *)


\* variant: the counter is read after the increment
generate_new_entity_late(avail) ==
    [id |-> avail[1] + 1, avail |-> [avail EXCEPT ![1] = @ + 1]]

\* variant: the counter is not advanced
generate_new_entity_stuck(avail) ==
    [id |-> avail[1], avail |-> avail]

generate_new_entity(avail) ==
    [id |-> avail[1], avail |-> [avail EXCEPT ![1] = @ + 1]]


\* variant: the oldest recycled id is taken (queue instead of stack)
use_recycled_entity_fifo(avail) ==
    [id |-> avail[2], avail |-> <<avail[1]>> \o SubSeq(avail, 3, Len(avail))]

\* variant: the id is taken from the front of the list, where the counter is
use_recycled_entity_head(avail) ==
    [id |-> Head(avail), avail |-> Tail(avail)]

\* variant: the recycled id is read but stays in the list
use_recycled_entity_peek(avail) ==
    [id |-> Last(avail), avail |-> avail]

use_recycled_entity(avail) ==
    [id |-> Last(avail), avail |-> Front(avail)]


\* variant: a single recycled id is not enough to recycle
entity_late(avail) ==
    IF Len(avail) <= 2 THEN generate_new_entity(avail) ELSE use_recycled_entity(avail)

entity(avail) ==
    IF Len(avail) = 1 THEN generate_new_entity(avail) ELSE use_recycled_entity(avail)

component_pool_exists(pools, T) == T \in DOMAIN pools

component_exists(pools, T, e) ==
    component_pool_exists(pools, T) /\ has_component(pools[T], e)

\* HashMap::insert: add the key or replace its pool
insert(pools, T, pool) ==
    [K \in (DOMAIN pools) \cup {T} |-> IF K = T THEN pool ELSE pools[K]]

new_component_pool(pools, T, e, c) == insert(pools, T, new_with_entity(e, c))

scene_assign_component(pools, T, e, c) ==
    [pools EXCEPT ![T] = assign_component(@, e, c)]

\* variant: every scalar type is filed under the key of i32
component_onekey(pools, T, e, c) ==
    IF component_pool_exists(pools, "i32")
    THEN scene_assign_component(pools, "i32", e, c)
    ELSE new_component_pool(pools, "i32", e, c)

\* variant: every call builds the pool anew
component_fresh(pools, T, e, c) == new_component_pool(pools, T, e, c)

component(pools, T, e, c) ==
    IF component_pool_exists(pools, T)
    THEN scene_assign_component(pools, T, e, c)
    ELSE new_component_pool(pools, T, e, c)

\* variant: the element is filed under its own type instead of Vec of it
vectorized_component_flat(pools, T, e, c) == component(pools, T, e, c)

vectorized_component(pools, T, e, c) ==
    IF component_exists(pools, VecOf(T), e)
    THEN [pools EXCEPT ![VecOf(T)] = push_component(@, e, c)]
    ELSE IF component_pool_exists(pools, VecOf(T))
    THEN scene_assign_component(pools, VecOf(T), e, <<c>>)
    ELSE new_component_pool(pools, VecOf(T), e, <<c>>)

\* variant: a read of a missing pool creates it (get_or_create)
scene_get_or_create(pools, T) ==
    IF component_pool_exists(pools, T)
    THEN [out |-> "Ok", pools |-> pools]
    ELSE [out |-> "Ok",
          pools |-> insert(pools, T, [num_components |-> 0, sparse_array |-> <<>>,
                                      packed_array |-> <<>>, component_array |-> <<>>])]

\* Registry get<T>: the pool of T, PoolNotFound if T was never assigned
scene_get(pools, T) ==
    IF component_pool_exists(pools, T)
    THEN [out |-> "Ok", pools |-> pools]
    ELSE [out |-> "PoolNotFound", pools |-> pools]

\* variant: an entity without a component reads as the default value
pool_get_default(pool, e) ==
    IF has_component(pool, e)
    THEN [out |-> "Ok", v |-> get_component(pool, e)]
    ELSE [out |-> "Ok", v |-> 0]

\* Pool get(e) / get_mut(e): the value of e, NotFound (and no value) if !has(e)
pool_get(pool, e) ==
    IF has_component(pool, e)
    THEN [out |-> "Ok", v |-> get_component(pool, e)]
    ELSE [out |-> "NotFound", v |-> 0]

\* the ids the allocator holds for reuse
recycle_list(avail) == Tail(avail)
next_fresh_id(avail) == avail[1]


\* variant: every id below the counter passes the guard
is_live_issued(avail, e) == e < next_fresh_id(avail)

\* the Scene's guard of delete: e was issued and is not waiting for reuse
is_live(avail, e) == e < next_fresh_id(avail) /\ e \notin Range(recycle_list(avail))


\* variant: the id is recycled and the pools are left as they are
delete_no_sweep(avail, pools, e) ==
    [avail |-> Append(avail, e), pools |-> pools]

\* delete_entity, accepted: sweep e out of every pool, then recycle e
delete(avail, pools, e) ==
    [avail |-> Append(avail, e),
     pools |-> [T \in DOMAIN pools |-> remove_component(pools[T], e)]]

\* the pools in which the sweep of e moves the last dense element into e's slot
moves(pools, e) ==
    Cardinality({T \in DOMAIN pools :
                    /\ has_component(pools[T], e)
                    /\ pools[T].sparse_array[e + 1] + 1 < Len(pools[T].packed_array)})

(* ------------------------------ history ------------------------------- *)

NoOp == [name |-> "new", ty |-> "", e |-> -1, v |-> 0, ret |-> -1, out |-> "Ok"]

\* trail keeps the allocator events <<"d", id>> / <<"c", id>> of the current
\* run "delete a, delete b, create, create"; any other event restarts it
trail_delete(t, e) ==
    IF Len(t) = 1 /\ t[1][1] = "d" THEN Append(t, <<"d", e>>)
    ELSE IF Len(t) = 2 THEN <<t[2], <<"d", e>>>>
    ELSE <<<<"d", e>>>>

trail_create(t, id) ==
    IF Len(t) \in {2, 3} THEN Append(t, <<"c", id>>) ELSE <<>>

\* position of e's pair in a per-type history, 0 if e was never assigned
hist_index(s, e) ==
    LET I == {i \in 1 .. Len(s) : s[i][1] = e}
    IN  IF I = {} THEN 0 ELSE CHOOSE i \in I : TRUE

hist_of(h, T) == IF T \in DOMAIN h THEN h[T] ELSE <<>>

\* the collection appended to e so far, <<>> if none
hist_vec(h, T, e) ==
    LET i == hist_index(hist_of(h, T), e)
    IN  IF i = 0 THEN <<>> ELSE hist_of(h, T)[i][2]

\* record that e now holds val in type T; a new entity goes last.  Once delete
\* was called (void) only the set of assigned types is kept
hist_put(h, T, e, val, void) ==
    LET s == hist_of(h, T)
        i == hist_index(s, e)
        s2 == IF i = 0 THEN Append(s, <<e, val>>) ELSE [s EXCEPT ![i] = <<e, val>>]
    IN  [K \in (DOMAIN h) \cup {T} |->
            IF void THEN <<>> ELSE IF K = T THEN s2 ELSE h[K]]

hist_void(h) == [K \in DOMAIN h |-> <<>>]

(* ------------------------------ actions ------------------------------- *)

Init ==
    /\ available_entities = <<0>>
    /\ component_pools = <<>>
    /\ op = NoOp
    /\ live = {}
    /\ calls = 0
    /\ trail = <<>>
    /\ hist = <<>>

\* Scene::entity
Entity ==
    /\ Len(available_entities) = 1 => available_entities[1] < MaxEntities
    /\ LET r == entity(available_entities)
       IN  /\ available_entities' = r.avail
           /\ op' = [NoOp EXCEPT !.name = "entity", !.ret = r.id]
           /\ live' = live \cup {r.id}
           /\ trail' = trail_create(trail, r.id)
    /\ calls' = IF calls = -1 THEN -1 ELSE calls + 1
    /\ UNCHANGED <<component_pools, hist>>

\* Scene::delete
Delete(e) ==
    /\ IF is_live(available_entities, e)
       THEN LET r == delete(available_entities, component_pools, e)
            IN  /\ available_entities' = r.avail
                /\ component_pools' = r.pools
                /\ op' = [NoOp EXCEPT !.name = "delete", !.e = e,
                                      !.ret = moves(component_pools, e)]
                /\ trail' = trail_delete(trail, e)
                /\ live' = live \ {e}
       ELSE /\ op' = [NoOp EXCEPT !.name = "delete", !.e = e, !.out = "InvalidRecycle"]
            /\ UNCHANGED <<available_entities, component_pools, trail, live>>
    /\ calls' = -1
    /\ hist' = hist_void(hist)

\* variant: assigning to an id at or above the counter registers the id
SetComponent_register(T, e, v) ==
    /\ component_pools' = component(component_pools, T, e, v)
    /\ op' = [NoOp EXCEPT !.name = "set", !.ty = T, !.e = e, !.v = v]
    /\ hist' = hist_put(hist, T, e, v, calls = -1)
    /\ available_entities' =
           [available_entities EXCEPT ![1] = IF e >= @ THEN e + 1 ELSE @]
    /\ UNCHANGED <<live, calls, trail>>

\* Scene::component::<T>(e, v)
SetComponent(T, e, v) ==
    /\ component_pools' = component(component_pools, T, e, v)
    /\ op' = [NoOp EXCEPT !.name = "set", !.ty = T, !.e = e, !.v = v]
    /\ hist' = hist_put(hist, T, e, v, calls = -1)
    /\ UNCHANGED <<available_entities, live, calls, trail>>

\* Scene::vectorized_component::<T>(e, v)
AppendComponent(T, e, v) ==
    /\ component_exists(component_pools, VecOf(T), e) =>
           Len(get_component(component_pools[VecOf(T)], e)) < MaxVecLen
    /\ component_pools' = vectorized_component(component_pools, T, e, v)
    /\ op' = [NoOp EXCEPT !.name = "append", !.ty = VecOf(T), !.e = e, !.v = v]
    /\ hist' = hist_put(hist, VecOf(T), e, Append(hist_vec(hist, VecOf(T), e), v),
                        calls = -1)
    /\ UNCHANGED <<available_entities, live, calls, trail>>

\* EntityConstructor::create_empty_entity on the pool of T
CreateEmptyEntity(T) ==
    /\ component_pool_exists(component_pools, T)
    /\ Len(component_pools[T].sparse_array) < MaxSparse
    /\ component_pools' = [component_pools EXCEPT ![T] = create_empty_entity(@)]
    /\ op' = [NoOp EXCEPT !.name = "empty", !.ty = T]
    /\ UNCHANGED <<available_entities, live, calls, trail, hist>>

\* Scene::get::<T>(): read all values of the type
GetAll(T) ==
    /\ LET r == scene_get(component_pools, T)
       IN  /\ component_pools' = r.pools
           /\ op' = [NoOp EXCEPT !.name = "get_all", !.ty = T, !.out = r.out]
    /\ UNCHANGED <<available_entities, live, calls, trail, hist>>

\* read the component of type T of entity e
GetComponent(T, e) ==
    /\ LET r == scene_get(component_pools, T)
           g == IF r.out = "Ok" THEN pool_get(r.pools[T], e)
                ELSE [out |-> r.out, v |-> 0]
       IN  /\ component_pools' = r.pools
           /\ op' = [NoOp EXCEPT !.name = "get", !.ty = T, !.e = e,
                                 !.v = g.v, !.out = g.out]
    /\ UNCHANGED <<available_entities, live, calls, trail, hist>>

\* ComponentPool::prolong_sparse_array(e, ..) applied to the sparse array of the
\* pool of T
ProlongSparseArray(T, e) ==
    /\ component_pool_exists(component_pools, T)
    /\ component_pools' =
           [component_pools EXCEPT ![T].sparse_array = prolong_sparse_array(e, @)]
    /\ op' = [NoOp EXCEPT !.name = "prolong", !.ty = T, !.e = e]
    /\ UNCHANGED <<available_entities, live, calls, trail, hist>>

Next ==
    \/ Entity
    \/ \E e \in Entities : Delete(e)
    \/ \E T \in ScalarTypes, e \in Entities, v \in Values : SetComponent(T, e, v)
    \/ \E T \in ElemTypes, e \in Entities, v \in Values : AppendComponent(T, e, v)
    \/ \E T \in TypeIds : CreateEmptyEntity(T)

Spec == Init /\ [][Next]_vars

\* the Scene used with single-value components only: no vectorized_component
NextScalar ==
    \/ Entity
    \/ \E e \in Entities : Delete(e)
    \/ \E T \in ScalarTypes, e \in Entities, v \in Values : SetComponent(T, e, v)
    \/ \E T \in ScalarTypes : CreateEmptyEntity(T)

SpecScalar == Init /\ [][NextScalar]_vars

\* single-value components with the sparse array also prolonged directly
NextSparse ==
    \/ Entity
    \/ \E e \in Entities : Delete(e)
    \/ \E T \in ScalarTypes, e \in Entities, v \in Values : SetComponent(T, e, v)
    \/ \E T \in ScalarTypes : CreateEmptyEntity(T)
    \/ \E T \in ScalarTypes, e \in 0 .. (MaxSparse - 1) : ProlongSparseArray(T, e)

SpecSparse == Init /\ [][NextSparse]_vars

\* the Scene with single-value components and the read operations
NextRead ==
    \/ Entity
    \/ \E e \in Entities : Delete(e)
    \/ \E T \in ScalarTypes, e \in Entities, v \in Values : SetComponent(T, e, v)
    \/ \E T \in TypeIds : GetAll(T)
    \/ \E T \in TypeIds, e \in Entities : GetComponent(T, e)

SpecRead == Init /\ [][NextRead]_vars

\* the Scene used with two scalar types and one collection type, no deletion
NextTypes ==
    \/ \E T \in ScalarTypes \cup FloatTypes, e \in Entities :
           \E v \in ValuesOf(T) : SetComponent(T, e, v)
    \/ \E T \in ElemTypes, e \in Entities :
           \E v \in ValuesOf(T) : AppendComponent(T, e, v)

SpecTypes == Init /\ [][NextTypes]_vars

(* ------------------------------ claims -------------------------------- *)

counter == next_fresh_id(available_entities)
recycled == recycle_list(available_entities)

\* C1: on a Scene on which delete was never called, the N-th call of entity()
\* (counting from 0) returns N, whatever component operations are interleaved.
C1_MonotonicFreshAllocation ==
    (op.name = "entity" /\ calls # -1) => op.ret = calls - 1

C1_Witness ==
    /\ op.name = "entity" /\ calls = 2 /\ op.ret = 1
    /\ DOMAIN component_pools # {}

\* C2: when the recycle list is non-empty, entity() returns an id taken from
\* the recycle list and leaves the high-water counter unchanged; an entity()
\* right after an accepted delete(e) returns e.
C2_RecycleBeforeFresh ==
    [][op'.name = "entity" =>
          /\ recycled # <<>> =>
                 /\ op'.ret \in Range(recycled)
                 /\ Occurrences(recycle_list(available_entities'), op'.ret)
                        = Occurrences(recycled, op'.ret) - 1
                 /\ next_fresh_id(available_entities') = counter
          /\ (op.name = "delete" /\ op.out = "Ok") => op'.ret = op.e]_vars

C2_Witness ==
    /\ op.name = "entity" /\ calls = -1
    /\ op.ret = 0 /\ counter = 2 /\ live = {0, 1}

\* C3: recycled ids are reused last-in first-out: after delete a, delete b
\* with no entity() in between, the next entity() returns b and the one after
\* returns a; entity() returns the counter and increments it exactly when the
\* recycle list is empty.
C3_LifoReuse ==
    [][op'.name = "entity" =>
          /\ Len(trail') >= 3 => trail'[3][2] = trail'[2][2]
          /\ Len(trail') = 4 => trail'[4][2] = trail'[1][2]
          /\ recycled = <<>> =>
                 /\ op'.ret = counter
                 /\ next_fresh_id(available_entities') = counter + 1
          /\ next_fresh_id(available_entities') # counter => recycled = <<>>]_vars

C3_Witness ==
    /\ op.name = "entity" /\ Len(trail) = 4
    /\ trail[1][2] # trail[2][2]

\* C4: every id below the high-water counter is either live or exactly once
\* in the recycle list: never both, never twice, never neither.
C4_AllocatorInvariant ==
    \A id \in 0 .. (counter - 1) :
        \/ id \in live /\ Occurrences(recycled, id) = 0
        \/ id \notin live /\ Occurrences(recycled, id) = 1

C4_Witness ==
    /\ counter = 2 /\ Cardinality(live) = 1 /\ Len(recycled) = 1
    /\ op.name = "entity"

\* C5: entity() never returns an id that is live at the time of the call.
C5_NoLiveIdReissued ==
    [][op'.name = "entity" => op'.ret \notin live]_vars

C5_Witness ==
    /\ op.name = "entity" /\ calls = -1
    /\ op.ret = 1 /\ live = {0, 1} /\ recycled = <<>>

\* C6: delete of an id that is not live (never issued or already deleted) is
\* rejected as InvalidRecycle, the id is not pushed onto the recycle list and
\* the allocator state is unchanged.
C6_InvalidRecycleRejected ==
    [][(op'.name = "delete" /\ op'.e \notin live) =>
          /\ op'.out = "InvalidRecycle"
          /\ available_entities' = available_entities]_vars

C6_Witness ==
    /\ op.name = "delete" /\ op.out = "InvalidRecycle"
    /\ op.e \in Range(recycled)

\* C7: an accepted delete(e) leaves no pool with an entry for e, so the id
\* re-issued by the next entity() has no component of any type.
C7_DeleteSweepsPools ==
    [][/\ (op'.name = "delete" /\ op'.out = "Ok") =>
              \A T \in DOMAIN component_pools' :
                  ~has_component(component_pools'[T], op'.e)
       /\ (op.name = "delete" /\ op.out = "Ok" /\ op'.name = "entity") =>
              /\ op'.ret = op.e
              /\ \A T \in DOMAIN component_pools' :
                     ~has_component(component_pools'[T], op'.ret)]_vars

\* a pool emptied by the sweep: only a removal brings num_components to 0
C7_Witness ==
    /\ op.name = "delete" /\ op.out = "Ok"
    /\ \E T \in DOMAIN component_pools :
           /\ component_pools[T].num_components = 0
           /\ Len(component_pools[T].sparse_array) > op.e

\* C8: right after component(e, v) the pool of the type has has(e) true and
\* stores v for e, whether the pool was created, a slot appended or a value
\* overwritten.
C8_AssignThenRead ==
    op.name = "set" =>
        /\ component_exists(component_pools, op.ty, op.e)
        /\ get_component(component_pools[op.ty], op.e) = op.v

\* the call overwrote: e sits in the first of two slots, a new slot is the last
C8_Witness ==
    /\ op.name = "set"
    /\ component_pools[op.ty].num_components = 2
    /\ component_pools[op.ty].packed_array[1] = op.e

\* C9: component(e, v2) on an entity that already has a component of the type
\* replaces the value in e's dense slot and changes nothing else: the dense
\* size, the owners, the sparse index, the other values and the other pools.
C9_OverwriteInPlace ==
    [][(op'.name = "set" /\ component_exists(component_pools, op'.ty, op'.e)) =>
          LET old == component_pools[op'.ty]
              new == component_pools'[op'.ty]
              slot == old.sparse_array[op'.e + 1]
          IN  /\ new.num_components = old.num_components
              /\ new.packed_array = old.packed_array
              /\ new.sparse_array = old.sparse_array
              /\ new.component_array =
                     [old.component_array EXCEPT ![slot + 1] = op'.v]
              /\ Occurrences(new.packed_array, op'.e) = 1
              /\ DOMAIN component_pools' = DOMAIN component_pools
              /\ \A T \in DOMAIN component_pools \ {op'.ty} :
                     component_pools'[T] = component_pools[T]]_vars

C9_Witness ==
    /\ op.name = "set"
    /\ component_pools[op.ty].num_components = 2
    /\ component_pools[op.ty].packed_array = <<op.e, 1 - op.e>>
    /\ component_pools[op.ty].component_array[1] = op.v
    /\ component_pools[op.ty].component_array[2] # op.v

PoolInvariant(pool) ==
    /\ Len(pool.component_array) = pool.num_components
    /\ Len(pool.packed_array) = pool.num_components
    /\ Cardinality({e \in 1 .. Len(pool.sparse_array) : pool.sparse_array[e] # Absent})
           = pool.num_components
    /\ \A i \in 1 .. Len(pool.packed_array) :
           /\ pool.packed_array[i] < Len(pool.sparse_array)
           /\ pool.sparse_array[pool.packed_array[i] + 1] = i - 1
    /\ \A e \in 1 .. Len(pool.sparse_array) :
           pool.sparse_array[e] # Absent =>
               /\ pool.sparse_array[e] \in 0 .. (Len(pool.packed_array) - 1)
               /\ pool.packed_array[pool.sparse_array[e] + 1] = e - 1

\* C10: in every pool the value array, the owner array, num_components and the
\* number of non-absent sparse entries agree, and sparse_array[e] = i exactly
\* when packed_array[i] = e.
C10_PoolStructure ==
    \A T \in DOMAIN component_pools : PoolInvariant(component_pools[T])

C10_Witness ==
    /\ calls = -1
    /\ \E T \in DOMAIN component_pools :
           /\ component_pools[T].num_components = 2
           /\ component_pools[T].packed_array = <<1, 0>>
           /\ component_pools[T].sparse_array = <<1, 0, Absent>>

\* every stored value is a value of the pool's own type
TypedPools ==
    /\ \A T \in (DOMAIN component_pools) \ VecTypes :
           Range(component_pools[T].component_array) \subseteq ValuesOf(T)
    /\ \A T \in ElemTypes :
           VecOf(T) \in DOMAIN component_pools =>
               \A c \in Range(component_pools[VecOf(T)].component_array) :
                   Range(c) \subseteq ValuesOf(T)

\* C11: component / vectorized_component for a type changes only the pool
\* keyed by that type: every pool of another type is unchanged, and no pool
\* ever holds a value that was assigned as another type.
C11_CrossTypeIsolation ==
    [][op'.name \in {"set", "append"} =>
          /\ DOMAIN component_pools' = (DOMAIN component_pools) \cup {op'.ty}
          /\ \A T \in (DOMAIN component_pools) \ {op'.ty} :
                 component_pools'[T] = component_pools[T]
          /\ TypedPools']_vars

\* i32, f32 and Vec<i32> all attached to the same entity
C11_Witness ==
    /\ op.name = "set" /\ op.ty = "f32"
    /\ DOMAIN component_pools = AllTypeIds
    /\ \A T \in AllTypeIds : has_component(component_pools[T], op.e)

\* the entities / the values of a per-type history, in order of first assignment
hist_owners(s) == [i \in 1 .. Len(s) |-> s[i][1]]
hist_values(s) == [i \in 1 .. Len(s) |-> s[i][2]]

\* C12: with no deletion, after any sequence of vectorized_component calls
\* each entity that received an append has exactly one collection, equal to
\* the values appended to it in call order, and get_all lists the collections
\* in the order of each entity's first append.
C12_AppendSemantics ==
    calls # -1 =>
        \A T \in ElemTypes :
            VecOf(T) \in DOMAIN hist =>
                /\ component_pool_exists(component_pools, VecOf(T))
                /\ get_all(component_pools, VecOf(T)) = hist_values(hist[VecOf(T)])
                /\ component_pools[VecOf(T)].packed_array = hist_owners(hist[VecOf(T)])
                /\ \A i \in 1 .. Len(hist[VecOf(T)]) :
                       LET e == hist[VecOf(T)][i][1]
                       IN  /\ has_component(component_pools[VecOf(T)], e)
                           /\ get_component(component_pools[VecOf(T)], e)
                                  = hist[VecOf(T)][i][2]
                           /\ Occurrences(component_pools[VecOf(T)].packed_array, e) = 1

\* two entities, two appends each, the higher id first
C12_Witness ==
    /\ op.name = "append" /\ op.e = 1
    /\ component_pools[op.ty].packed_array = <<1, 0>>
    /\ get_all(component_pools, op.ty) = <<<<1, 2>>, <<2, 1>>>>

\* C13: in a pool from which nothing was removed, get_all yields the values in
\* the order in which their entities first received a component of the type,
\* whatever the numeric order of the ids; an overwrite does not move a value.
C13_DenseOrderIsAssignmentOrder ==
    calls # -1 =>
        \A T \in DOMAIN hist :
            /\ component_pools[T].packed_array = hist_owners(hist[T])
            /\ get_all(component_pools, T) = hist_values(hist[T])

\* entity 1 was assigned before entity 0 and has just been overwritten
C13_Witness ==
    /\ op.name = "set" /\ op.e = 1 /\ calls # -1
    /\ component_pools[op.ty].packed_array = <<1, 0>>
    /\ get_all(component_pools, op.ty)[1] = op.v
    /\ get_all(component_pools, op.ty)[2] # op.v

\* the sparse array of the pool of T, empty while the pool does not exist
sparse_of(pools, T) == IF T \in DOMAIN pools THEN pools[T].sparse_array ELSE <<>>

\* C14: assigning a component of type T to entity k when the sparse array is
\* shorter than k + 1 (also when the call creates the pool) succeeds, makes the
\* sparse array exactly k + 1 long with the new slots below k absent and the
\* old slots unchanged, and has(j) stays false for every entity that never
\* received a component of the type.
C14_SparsePadding ==
    [][(op'.name \in {"set", "append"}
            /\ Len(sparse_of(component_pools, op'.ty)) < op'.e + 1) =>
          LET old == sparse_of(component_pools, op'.ty)
              new == sparse_of(component_pools', op'.ty)
              k == op'.e
          IN  /\ Len(new) = k + 1
              /\ new[k + 1] # Absent
              /\ get_component(component_pools'[op'.ty], k)
                     = Last(component_pools'[op'.ty].component_array)
              /\ \A j \in Len(old) .. (k - 1) : new[j + 1] = Absent
              /\ \A j \in 0 .. (Len(old) - 1) : new[j + 1] = old[j + 1]
              /\ \A j \in Entities \ {k} :
                     component_exists(component_pools', op'.ty, j)
                         = component_exists(component_pools, op'.ty, j)
              /\ calls' # -1 =>
                     \A j \in Entities :
                         component_exists(component_pools', op'.ty, j)
                             <=> j \in Range(hist_owners(hist'[op'.ty]))]_vars

\* the pool was created with entity 1: slot 0 of the sparse array is padding
C14_Witness ==
    /\ op.name = "set" /\ op.e = 1 /\ calls # -1
    /\ component_pools[op.ty].sparse_array = <<Absent, 0>>
    /\ ~has_component(component_pools[op.ty], 0)

\* the effect of removing e on one pool, old before and new after
Compacted(old, new, e) ==
    IF ~has_component(old, e)
    THEN new = old
    ELSE LET i == old.sparse_array[e + 1]
             n == old.num_components
             moved == old.packed_array[n]
         IN  /\ new.num_components = n - 1
             /\ Len(new.packed_array) = n - 1
             /\ Len(new.component_array) = n - 1
             /\ Len(new.sparse_array) = Len(old.sparse_array)
             /\ new.sparse_array[e + 1] = Absent
             /\ i < n - 1 =>
                    /\ new.packed_array[i + 1] = moved
                    /\ new.component_array[i + 1] = old.component_array[n]
                    /\ new.sparse_array[moved + 1] = i
             /\ \A j \in 0 .. (Len(old.sparse_array) - 1) :
                    j # e =>
                        /\ has_component(new, j) = has_component(old, j)
                        /\ has_component(old, j) =>
                               get_component(new, j) = get_component(old, j)
                        /\ j # moved => new.sparse_array[j + 1] = old.sparse_array[j + 1]

\* C15: removing the component of an entity e that is not in the last dense
\* slot of a pool of size n makes the size n - 1, moves the former last element
\* into e's slot with its sparse entry updated, marks e absent and leaves has()
\* and the value of every other entity unchanged; removing an entity that has
\* no component in the pool changes nothing.
C15_RemovalCompaction ==
    [][(op'.name = "delete" /\ op'.out = "Ok") =>
          /\ DOMAIN component_pools' = DOMAIN component_pools
          /\ \A T \in DOMAIN component_pools :
                 Compacted(component_pools[T], component_pools'[T], op'.e)]_vars

\* the sweep moved the last element into the slot of the deleted entity
C15_Witness ==
    /\ op.name = "delete" /\ op.out = "Ok" /\ op.ret = 1
    /\ \E T \in DOMAIN component_pools :
           /\ component_pools[T].num_components = 1
           /\ component_pools[T].packed_array[1] # op.e
           /\ component_pools[T].sparse_array[component_pools[T].packed_array[1] + 1] = 0

\* C16: reading a type that was never assigned to any entity fails with
\* PoolNotFound, which is not NotFound, and creates no pool for the type.
C16_PoolNotFound ==
    [][(op'.name \in {"get_all", "get"} /\ op'.ty \notin DOMAIN hist) =>
          /\ op'.out = "PoolNotFound"
          /\ op'.out # "NotFound"
          /\ component_pools' = component_pools
          /\ ~component_pool_exists(component_pools', op'.ty)]_vars

\* another type has a pool, the type read has none
C16_Witness ==
    /\ op.name = "get_all" /\ op.out = "PoolNotFound"
    /\ DOMAIN component_pools # {}
    /\ op.ty \notin DOMAIN component_pools

stored(name, v) == IF name = "append" THEN <<v>> ELSE v

\* C18: the pool of a type exists exactly when a component / vectorized_component
\* call for that type was executed; the first such call creates the pool
\* holding that entity's value only, and every later call reuses the pool and
\* keeps the components of the other entities.
C18_LazyPoolCreation ==
    [][/\ DOMAIN component_pools' = DOMAIN hist'
       /\ op'.name \in {"set", "append"} =>
              IF ~component_pool_exists(component_pools, op'.ty)
              THEN /\ component_pools'[op'.ty].num_components = 1
                   /\ component_pools'[op'.ty].packed_array = <<op'.e>>
                   /\ component_pools'[op'.ty].component_array
                          = <<stored(op'.name, op'.v)>>
              ELSE /\ component_pools'[op'.ty].num_components
                          >= component_pools[op'.ty].num_components
                   /\ \A j \in Entities \ {op'.e} :
                          has_component(component_pools[op'.ty], j) =>
                              /\ has_component(component_pools'[op'.ty], j)
                              /\ get_component(component_pools'[op'.ty], j)
                                     = get_component(component_pools[op'.ty], j)]_vars

\* a later call of the type added its entity next to the one already stored
C18_Witness ==
    /\ op.name \in {"set", "append"}
    /\ component_pools[op.ty].num_components = 2
    /\ component_pools[op.ty].packed_array[2] = op.e
    /\ component_pools[op.ty].component_array[1] # stored(op.name, op.v)

\* the pool of T is the same before and after the step, or missing in both
SamePool(T) ==
    /\ component_pool_exists(component_pools', T) = component_pool_exists(component_pools, T)
    /\ component_pool_exists(component_pools, T) =>
           component_pools'[T] = component_pools[T]

\* C19: the pool of T and the pool of Vec<T> are separate: vectorized_component
\* of a T value never creates or changes the pool keyed by T, and component of
\* a T value never creates or changes the pool keyed by Vec<T>.
C19_ScalarAndCollectionPoolsSeparate ==
    [][\A T \in ElemTypes :
          /\ (op'.name = "append" /\ op'.ty = VecOf(T)) => SamePool(T)
          /\ (op'.name = "set" /\ op'.ty = T) => SamePool(VecOf(T))]_vars

\* the same entity holds an i32 and a Vec<i32> of two elements
C19_Witness ==
    /\ op.name = "append"
    /\ \E T \in ElemTypes :
           /\ op.ty = VecOf(T)
           /\ component_exists(component_pools, T, op.e)
           /\ component_exists(component_pools, VecOf(T), op.e)
           /\ Len(get_component(component_pools[VecOf(T)], op.e)) = 2

\* C20: entity() changes the allocator only and no pool; component and
\* vectorized_component, on any id, live or not, change pools only and leave
\* the counter and the recycle list unchanged.
C20_AllocatorAndPoolsIndependent ==
    [][/\ op'.name = "entity" =>
              /\ component_pools' = component_pools
              /\ available_entities' # available_entities
       /\ op'.name \in {"set", "append"} =>
              available_entities' = available_entities]_vars

\* a component for an id the allocator never issued, next to a recycled id
C20_Witness ==
    /\ op.name \in {"set", "append"}
    /\ op.e >= counter /\ recycled # <<>>
    /\ component_exists(component_pools, op.ty, op.e)

\* C21: prolong_sparse_array(e, ..) keeps every entry below the old length,
\* sets every new entry to absent, makes the length exactly e + 1, and does
\* nothing when e is below the current length; no operation ever shortens a
\* sparse array.
C21_ProlongSparseArray ==
    [][/\ op'.name = "prolong" =>
              LET old == component_pools[op'.ty].sparse_array
                  new == component_pools'[op'.ty].sparse_array
                  e == op'.e
              IN  /\ e < Len(old) => new = old
                  /\ e >= Len(old) =>
                         /\ Len(new) = e + 1
                         /\ \A i \in 1 .. Len(old) : new[i] = old[i]
                         /\ \A i \in (Len(old) + 1) .. (e + 1) : new[i] = Absent
                  /\ component_pools' =
                         [component_pools EXCEPT ![op'.ty].sparse_array = new]
       /\ \A T \in DOMAIN component_pools :
              /\ T \in DOMAIN component_pools'
              /\ Len(component_pools'[T].sparse_array)
                     >= Len(component_pools[T].sparse_array)]_vars

\* the array <<absent, 0>> was prolonged to cover index 2
C21_Witness ==
    /\ op.name = "prolong" /\ op.e = 2
    /\ component_pools[op.ty].sparse_array = <<Absent, 0, Absent>>

\* C22: in every reachable pool state each sparse entry is either absent or a
\* dense slot i with 0 <= i < num_components that the component array has, so
\* the overwrite branch of assign_component never indexes out of range.
C22_SparseEntriesInRange ==
    \A T \in DOMAIN component_pools :
        LET pool == component_pools[T]
        IN  \A e \in 1 .. Len(pool.sparse_array) :
                \/ pool.sparse_array[e] = Absent
                \/ /\ 0 <= pool.sparse_array[e]
                   /\ pool.sparse_array[e] < pool.num_components
                   /\ pool.sparse_array[e] + 1 \in DOMAIN pool.component_array

\* the overwrite branch ran on the last dense slot of a pool, after a removal
\* and a later assignment
C22_Witness ==
    /\ op.name = "set" /\ calls = -1
    /\ has_component(component_pools[op.ty], op.e)
    /\ component_pools[op.ty].num_components = 2
    /\ component_pools[op.ty].sparse_array[op.e + 1] = 1
    /\ component_pools[op.ty].component_array[2] = op.v
    /\ Len(component_pools[op.ty].sparse_array) = MaxSparse

\* C23: available_entities is never empty and its element 0 is the high-water
\* counter: entity() pops only when the list has more than one element, the
\* popped id is the last element and leaves element 0 alone, every id returned
\* is below the counter, and no call of entity() or delete() decreases the
\* counter.
C23_CounterStaysAtFront ==
    [][/\ Len(available_entities') >= 1
       /\ available_entities'[1] >= available_entities[1]
       /\ \A id \in live' \cup Range(recycle_list(available_entities')) :
              id < available_entities'[1]
       /\ op'.name = "entity" =>
              IF Len(available_entities) = 1
              THEN /\ op'.ret = available_entities[1]
                   /\ available_entities' = <<available_entities[1] + 1>>
              ELSE /\ op'.ret = Last(available_entities)
                   /\ available_entities' = Front(available_entities)
                   /\ op'.ret < available_entities'[1]
       /\ op'.name = "delete" => available_entities'[1] = available_entities[1]]_vars

\* entity() popped id 1 and left the counter 2 in front of the recycled id 0
C23_Witness ==
    /\ op.name = "entity" /\ op.ret = 1 /\ calls = -1
    /\ available_entities = <<2, 0>>

\* C24: create_empty_entity appends exactly one absent entry at the end of the
\* pool's sparse array and leaves num_components, the owner array, the value
\* array and every earlier sparse entry unchanged.
C24_CreateEmptyEntityFrame ==
    [][op'.name = "empty" =>
          LET old == component_pools[op'.ty]
              new == component_pools'[op'.ty]
          IN  /\ Len(new.sparse_array) = Len(old.sparse_array) + 1
              /\ new.sparse_array[Len(new.sparse_array)] = Absent
              /\ \A i \in 1 .. Len(old.sparse_array) :
                     new.sparse_array[i] = old.sparse_array[i]
              /\ new.num_components = old.num_components
              /\ new.packed_array = old.packed_array
              /\ new.component_array = old.component_array]_vars

\* create_empty_entity ran on a pool that holds a component for entity 1 only
C24_Witness ==
    /\ op.name = "empty"
    /\ component_pools[op.ty].sparse_array = <<Absent, 0, Absent>>
    /\ component_pools[op.ty].packed_array = <<1>>
    /\ component_pools[op.ty].num_components = 1
====
